---- MODULE Spec2Model ----
(***************************************************************************)
(* State-machine model of the browser front-end of the Musab AI chatbot.   *)
(* The voice-call part models class VoiceCallSystem of src/voice-call.js:  *)
(* one action per DOM event handler, socket event handler, promise         *)
(* continuation and timer callback.  JavaScript runs handlers one at a     *)
(* time, so every handler is one atomic action; an `await` or a setTimeout *)
(* splits a method into the part before and the continuation, which is a   *)
(* separate action enabled by a pending-request or pending-timer variable. *)
(*                                                                         *)
(* Browser objects are modelled by what the handlers can observe of them:  *)
(*   - a MediaStream is an id, in `liveStreams` until its tracks are       *)
(*     stopped and in `enabledStreams` while its audio track is enabled;   *)
(*   - an AudioContext is an id in `openContexts` until close();           *)
(*   - a setInterval handle is an id in `intervals` until clearInterval(); *)
(*   - the SpeechRecognition object is the automaton `recState`;           *)
(*   - speechSynthesis is its utterance queue `synthQueue`.                *)
(* Ids are never reused while a variable still refers to them.  The canvas *)
(* drawing of visualizeAudio and the console output are not modelled.      *)
(***************************************************************************)
EXTENDS Integers, Sequences, FiniteSets, TLC

NULL == 0

\* ---------------------------------------------------------------- bounds
MaxStreams == 2      \* microphone streams with live tracks at one time
MaxPending == 2      \* getUserMedia requests awaiting the user's answer
MaxRetries == 2      \* deferred startCall retries pending at one time
MaxTimers == 2       \* setInterval handles active at one time
MaxHistory == 3      \* entries of messageHistory when a notice is added
MaxConversation == 5 \* entries of messageHistory when a turn is added
MaxSpeakTimers == 2  \* setTimeout(speak) timers pending at one time
MaxRecRetries == 1   \* setTimeout(recognition.start) timers pending at one time
MaxEmitted == 2      \* voice_input events awaiting their voice_response

MaxBubbles == 4      \* bubbles in the chat pane
MaxPosts == 2        \* POST /api/add_data requests made
MaxHideTimers == 1   \* auto-hide timers pending

\* ------------------------------------------------------ program constants
MinLength == 50      \* data.length < 50 (add_data.js)
RetryDelay == 2000   \* setTimeout(() => this.startCall(), 2000)
WelcomeDelay == 500  \* setTimeout(() => this.speak(welcome), 500)
ResponseDelay == 300 \* setTimeout(() => this.speak(data.text), 300)

\* ------------------------------------------------------------------ texts
\* A text is a sequence of tokens: words, white space and markup.
Welcome == <<"Hello! I'm Musab AI">>
ConnectingMsg == <<"Connecting to server... Please wait.">>
MicNeededMsg == <<"I need microphone access to hear you.">>
HoldMsg == <<"Call on hold. Click Resume when ready.">>
NoRecognitionMsg == <<"Speech recognition not available in this browser.">>
NetworkErrorMsg == <<"Network error. Please check your connection.">>
NotConnectedMsg == <<"Not connected to server. Please refresh the page.">>
SocketErrorMsg == <<"Sorry, there was an error processing your request.">>
LoadingDots == <<"<div class=\"loading-dots\">", "</div>">>

\* What the environment supplies: final transcripts of the recognizer (one
\* of them white space only), reply texts of the backend (with markup, one
\* of them markup only), session ids, recognition error categories.
Transcripts == {<<"hello">>, <<" ">>}
ResponseTexts == {<<"**", "Hi there", "**">>, <<"<br>">>}
SessionIds == {"sidA", "sidB"}
RecErrors == {"not-allowed", "no-speech", "network", "aborted"}
ResponseData == [text : ResponseTexts, used_rag : BOOLEAN]

VARIABLES
  hasCanvas,            \* document.getElementById('visualizer') is not null
  hasSynthesis,         \* 'speechSynthesis' in window
  isConnected,          \* this.isConnected
  mediaStream,          \* this.mediaStream: a stream id, or NULL
  liveStreams,          \* streams acquired whose tracks are not stopped
  enabledStreams,       \* the live streams whose audio track is enabled
  audioContext,         \* this.audioContext: a context id, or NULL
  openContexts,         \* AudioContexts created and not closed
  isCallActive,         \* this.isCallActive
  isMuted,              \* this.isMuted
  isOnHold,             \* this.isOnHold
  now,                  \* Date.now(): the clock, in milliseconds
  callStartTime,        \* this.callStartTime: NULL, or the clock at activation
  timerInterval,        \* this.timerInterval: an interval id, or NULL
  intervals,            \* setInterval handles not cleared
  callTimerText,        \* callTimer.textContent
  callUI,               \* "pre" or "active": the six show/hide class swaps
  permissionModalHidden,\* permissionModal has class 'hidden'
  callStatus,           \* text of the call status display
  micStatus,            \* text of the microphone status display
  messageHistory,       \* this.messageHistory
  conversationPane,     \* children of conversationPane
  gumStart,             \* pending getUserMedia requests awaited by startCall
  gumGrant,             \* pending getUserMedia requests of the grant button
  startRetries,         \* delays of the pending setTimeout(startCall) timers
  synthQueue,           \* speechSynthesis: utterances speaking or queued
  speakTimers,          \* pending setTimeout(speak(text)) timers
  currentUtterance,     \* this.currentUtterance: its text, or <<>>
  autoSpeak,            \* this.voiceSettings.autoSpeak
  hasRecognition,       \* this.recognition is not null
  recState,             \* the SpeechRecognition object's state
  isRecognizing,        \* this.isRecognizing
  isRecording,          \* this.isRecording
  recRetries,           \* pending setTimeout(recognition.start) timers
  sessionId,            \* this.sessionId: a session id, or "null"
  emitted,              \* voice_input events sent and not yet answered
  paneAttached,         \* conversationPane is in the document
  lastTranscript,       \* transcript of the latest result event, or <<>>
  muteBtnText,          \* text of the mute button
  holdBtnText,          \* text of the hold button
  \* the chat page (script.js)
  messageInput,         \* messageInput.value
  chatPane,             \* the bubbles of chatPane, in order
  chatPending,          \* fetches of text chat requests in flight
  voicePending,         \* fetches of voice-mode chat requests in flight
  chatStatus,           \* callStatus.textContent of the chat page
  liveTranscript,       \* liveTranscript.textContent
  callImages,           \* the img elements of callImages
  \* the ingestion page (add_data.js)
  dataInput,            \* dataInput.value
  responseDiv,          \* the message shown in the response element
  submitDisabled,       \* submitBtn.disabled
  formPending,          \* bodies of POST /api/add_data requests in flight
  posted,               \* POST /api/add_data requests made so far
  hideTimers            \* auto-hide timers of success messages pending

vars == <<now, hasCanvas, hasSynthesis, isConnected, mediaStream, liveStreams,
          enabledStreams,
          audioContext, openContexts, isCallActive, isMuted, isOnHold,
          callStartTime, timerInterval, intervals, callTimerText, callUI,
          permissionModalHidden, callStatus, micStatus, messageHistory,
          conversationPane, gumStart, gumGrant, startRetries, synthQueue,
          speakTimers, autoSpeak, hasRecognition, recState, isRecognizing,
          isRecording, recRetries, sessionId, emitted, paneAttached,
          lastTranscript, currentUtterance,
          muteBtnText, holdBtnText,
          messageInput, chatPane, chatPending, voicePending, chatStatus,
          liveTranscript, callImages,
          dataInput, responseDiv, submitDisabled, formPending, posted,
          hideTimers>>

chatVars == <<messageInput, chatPane, chatPending, voicePending, chatStatus,
             liveTranscript, callImages>>
formVars == <<dataInput, responseDiv, submitDisabled, formPending, posted,
             hideTimers>>
pageVars == <<chatVars, formVars>>
voiceVars == <<now, hasCanvas, hasSynthesis, isConnected, mediaStream, liveStreams,
               enabledStreams, audioContext, openContexts, isCallActive,
               isMuted, isOnHold, callStartTime, timerInterval, intervals,
               callTimerText, callUI, permissionModalHidden, callStatus,
               micStatus, messageHistory, conversationPane, gumStart,
               gumGrant, startRetries, synthQueue, speakTimers, autoSpeak,
               hasRecognition, recState, isRecognizing, isRecording,
               recRetries, sessionId, emitted, paneAttached, lastTranscript,
               currentUtterance, muteBtnText, holdBtnText>>
envVars == <<now, hasCanvas, hasSynthesis, hasRecognition>>
netVars == <<isConnected, sessionId, emitted>>
micVars == <<mediaStream, liveStreams, enabledStreams, audioContext,
            openContexts, micStatus>>
msgVars == <<messageHistory, conversationPane>>
callVars == <<isCallActive, callStartTime, timerInterval, intervals, callUI,
              callStatus, startRetries, speakTimers>>
flagVars == <<isMuted, isOnHold, muteBtnText, holdBtnText>>
recVars == <<recState, isRecognizing, isRecording, recRetries>>
gumVars == <<gumStart, gumGrant>>
outVars == <<synthQueue, currentUtterance, autoSpeak, callTimerText,
            paneAttached, lastTranscript>>

\* ---------------------------------------------------------------- helpers
\* The smallest id of 1..n+1 that is neither in use nor still referred to.
FreshId(used) == CHOOSE i \in 1..(Cardinality(used) + 1) : i \notin used

Msg(role, text, cls) == [role |-> role, text |-> text, cls |-> cls]

\* addMessage(role, text, className) (lines 683-712): one element appended
\* to the pane and one entry pushed on messageHistory (the time stamps and
\* the scrolling are not modelled).
AddMessage(role, text, cls) ==
  /\ conversationPane' = Append(conversationPane, Msg(role, text, cls))
  /\ messageHistory' = Append(messageHistory, [role |-> role, text |-> text])

\* Two addMessage calls in a row.
AddMessages(role1, text1, cls1, role2, text2, cls2) ==
  /\ conversationPane' = conversationPane \o
       <<Msg(role1, text1, cls1), Msg(role2, text2, cls2)>>
  /\ messageHistory' = messageHistory \o
       <<[role |-> role1, text |-> text1], [role |-> role2, text |-> text2]>>

\* messageHistory is unbounded: a notice (welcome, status or error message)
\* is added while it holds fewer than MaxHistory entries, the messages of a
\* voice turn while it holds fewer than MaxConversation.
HasRoom(n) == Len(messageHistory) + n <= MaxHistory
HasTurnRoom(n) == Len(messageHistory) + n <= MaxConversation

\* A value of the ingestion text area: lead white-space characters, then
\* core characters that begin and end with one that is not white space,
\* then trail white-space characters.
EmptyInput == [lead |-> 0, core |-> 0, trail |-> 0]

\* responseDiv.innerHTML = '' : no message shown.
NoMessage == [type |-> "none", text |-> <<>>]

\* The values Date.now() takes (lines 433, 795): the instants at which a
\* handler can run, one millisecond to one hundred and one minutes apart.
Instants == {1, 1000, 1001, 60000, 60001, 3600001, 5999001, 6000001, 6061001}
FirstInstant == CHOOSE t \in Instants : \A u \in Instants : t <= u

Init ==
  /\ now = FirstInstant
  /\ hasCanvas \in BOOLEAN
  /\ hasSynthesis \in BOOLEAN
  /\ hasRecognition \in BOOLEAN
  /\ isConnected = FALSE
  /\ sessionId = "null"
  /\ emitted = <<>>
  /\ mediaStream = NULL
  /\ liveStreams = {}
  /\ enabledStreams = {}
  /\ audioContext = NULL
  /\ openContexts = {}
  /\ micStatus = "Not connected"
  /\ isCallActive = FALSE
  /\ isMuted = FALSE
  /\ isOnHold = FALSE
  /\ muteBtnText = "Mute"
  /\ holdBtnText = "Hold"
  /\ callStartTime = NULL
  /\ timerInterval = NULL
  /\ intervals = {}
  /\ callTimerText = "00:00"
  /\ callUI = "pre"
  /\ permissionModalHidden = TRUE
  /\ callStatus = "Ready"
  /\ messageHistory = <<>>
  /\ conversationPane = <<>>
  /\ paneAttached = TRUE
  /\ lastTranscript = <<>>
  /\ gumStart = 0
  /\ gumGrant = 0
  /\ startRetries = <<>>
  /\ synthQueue = <<>>
  /\ speakTimers = <<>>
  /\ currentUtterance = <<>>
  /\ autoSpeak = TRUE
  /\ recState = "idle"
  /\ isRecognizing = FALSE
  /\ isRecording = FALSE
  /\ recRetries = 0
  /\ messageInput = <<>>
  /\ chatPane = <<>>
  /\ chatPending = 0
  /\ voicePending = 0
  /\ chatStatus = ""
  /\ liveTranscript = <<>>
  /\ callImages = <<>>
  /\ dataInput = EmptyInput
  /\ responseDiv = NoMessage
  /\ submitDisabled = FALSE
  /\ formPending = <<>>
  /\ posted = 0
  /\ hideTimers = 0

\* ------------------------------------------------------------ transport
\* socket.id of a new connection: an id the previous connection did not have.
NewSocketId == CHOOSE sid \in SessionIds : sid # sessionId

\* socket.on('connect') (lines 209-214).  The RAG status display, written
\* here and by the health check, is not modelled.
SocketConnect ==
  /\ ~isConnected
  /\ isConnected' = TRUE
  /\ sessionId' = NewSocketId
  /\ UNCHANGED <<pageVars, envVars, emitted, micVars, msgVars, callVars, flagVars,
                 recVars, gumVars, outVars, permissionModalHidden>>

\* socket.on('disconnect') (lines 216-220).
SocketDisconnect ==
  /\ isConnected
  /\ isConnected' = FALSE
  /\ UNCHANGED <<pageVars, envVars, sessionId, emitted, micVars, msgVars, callVars,
                 flagVars, recVars, gumVars, outVars, permissionModalHidden>>

\* socket.on('connection_status') (lines 222-225).
ConnectionStatus ==
  /\ isConnected
  /\ \E sid \in SessionIds : sessionId' = sid
  /\ UNCHANGED <<pageVars, envVars, isConnected, emitted, micVars, msgVars, callVars,
                 flagVars, recVars, gumVars, outVars, permissionModalHidden>>

\* socket.on('error') (lines 232-235).
SocketError ==
  /\ HasRoom(1)
  /\ AddMessage("assistant", SocketErrorMsg, "")
  /\ UNCHANGED <<pageVars, envVars, netVars, micVars, callVars, flagVars, recVars,
                 gumVars, outVars, permissionModalHidden>>

\* --------------------------------------------------------- call management
\* startTimer() (lines 791-802): a new interval handle.
NewInterval == FreshId(intervals \cup {timerInterval})

StartCallRestNoRetry(r) ==
  IF ~isConnected
    THEN /\ HasRoom(1)
         /\ AddMessage("assistant", ConnectingMsg, "")
         /\ startRetries' = r
         /\ UNCHANGED <<isCallActive, callStartTime, timerInterval, intervals,
                        callUI, callStatus, speakTimers>>
    ELSE /\ HasRoom(1) /\ Cardinality(intervals) < MaxTimers
         /\ (autoSpeak => Len(speakTimers) < MaxSpeakTimers)
         /\ isCallActive' = TRUE
         /\ callStartTime' = now
         /\ callUI' = "active"
         /\ timerInterval' = FreshId(intervals \cup {timerInterval})
         /\ intervals' = intervals \cup {FreshId(intervals \cup {timerInterval})}
         /\ callStatus' = "Call active"
         /\ AddMessage("assistant", Welcome, "")
         /\ speakTimers' = IF autoSpeak
                             THEN Append(speakTimers,
                                    [text |-> Welcome, delay |-> WelcomeDelay])
                             ELSE speakTimers
         /\ startRetries' = r

\* startCall() from the socket check on (lines 425-457): what runs when the
\* microphone check has passed, at once or after the awaited permission.
\* r holds the startCall timers pending when it runs.
StartCallRest(r) ==
  IF ~isConnected
    THEN /\ HasRoom(1) /\ Len(r) < MaxRetries
         /\ AddMessage("assistant", ConnectingMsg, "")
         /\ startRetries' = Append(r, RetryDelay)
         /\ UNCHANGED <<isCallActive, callStartTime, timerInterval, intervals,
                        callUI, callStatus, speakTimers>>
    ELSE /\ HasRoom(1) /\ Cardinality(intervals) < MaxTimers
         /\ (autoSpeak => Len(speakTimers) < MaxSpeakTimers)
         /\ isCallActive' = TRUE
         /\ callStartTime' = now
         /\ callUI' = "active"
         /\ timerInterval' = NewInterval
         /\ intervals' = intervals \cup {NewInterval}
         /\ callStatus' = "Call active"
         /\ AddMessage("assistant", Welcome, "")
         /\ speakTimers' = IF autoSpeak
                             THEN Append(speakTimers,
                                    [text |-> Welcome, delay |-> WelcomeDelay])
                             ELSE speakTimers
         /\ startRetries' = r

\* startCall() up to its first suspension or return (lines 415-458).
StartCall(r) ==
  IF mediaStream = NULL
    THEN /\ gumStart + gumGrant < MaxPending
         /\ permissionModalHidden' = FALSE
         /\ gumStart' = gumStart + 1
         /\ startRetries' = r
         /\ UNCHANGED <<msgVars, isCallActive, callStartTime, timerInterval,
                        intervals, callUI, callStatus, speakTimers>>
    ELSE /\ StartCallRest(r)
         /\ UNCHANGED <<permissionModalHidden, gumStart>>

\* click on startCallBtn (line 98); the button is hidden during a call
\* (lines 438, 495).
StartCallClick ==
  /\ callUI = "pre"
  /\ StartCall(startRetries)
  /\ UNCHANGED <<pageVars, envVars, netVars, micVars, flagVars, recVars, gumGrant,
                 outVars>>

\* The timer of line 428 fires: startCall() runs again.
StartCallRetry ==
  /\ startRetries # <<>>
  /\ StartCall(Tail(startRetries))
  /\ UNCHANGED <<pageVars, envVars, netVars, micVars, flagVars, recVars, gumGrant,
                 outVars>>

\* ---------------------------------------------------------------- microphone
NewStream == FreshId(liveStreams)
NewContext == FreshId(openContexts)

\* requestMicrophonePermission() after getUserMedia resolves (lines 328-335)
\* with setupAudioVisualization (lines 350-368).
MicGranted ==
  /\ Cardinality(liveStreams) < MaxStreams
  /\ mediaStream' = NewStream
  /\ liveStreams' = liveStreams \cup {NewStream}
  /\ enabledStreams' = enabledStreams \cup {NewStream}
  /\ micStatus' = "Connected"
  /\ IF hasCanvas
       THEN /\ audioContext' = NewContext
            /\ openContexts' = openContexts \cup {NewContext}
       ELSE UNCHANGED <<audioContext, openContexts>>

\* requestMicrophonePermission() after getUserMedia rejects (lines 337-347).
MicDenied ==
  /\ HasRoom(1)
  /\ micStatus' = "Permission denied"
  /\ AddMessage("assistant", MicNeededMsg, "")
  /\ UNCHANGED <<mediaStream, liveStreams, enabledStreams, audioContext,
                 openContexts>>

\* The user allows a request awaited by startCall: line 421 yields true and
\* startCall goes on.
PermissionGrantedStart ==
  /\ gumStart > 0
  /\ gumStart' = gumStart - 1
  /\ MicGranted
  /\ StartCallRest(startRetries)
  /\ UNCHANGED <<pageVars, envVars, netVars, flagVars, recVars, gumGrant, outVars,
                 permissionModalHidden>>

\* The user blocks a request awaited by startCall: line 422 returns.
PermissionDeniedStart ==
  /\ gumStart > 0
  /\ gumStart' = gumStart - 1
  /\ MicDenied
  /\ UNCHANGED <<pageVars, envVars, netVars, callVars, flagVars, recVars, gumGrant,
                 outVars, permissionModalHidden>>

\* click on grantPermissionBtn (lines 141-144), a button of the modal.
GrantPermissionClick ==
  /\ ~permissionModalHidden
  /\ gumStart + gumGrant < MaxPending
  /\ permissionModalHidden' = TRUE
  /\ gumGrant' = gumGrant + 1
  /\ UNCHANGED <<pageVars, envVars, netVars, micVars, msgVars, callVars, flagVars,
                 recVars, gumStart, outVars>>

\* click on cancelPermissionBtn (lines 149-152), a button of the modal.
CancelPermissionClick ==
  /\ ~permissionModalHidden
  /\ permissionModalHidden' = TRUE
  /\ callStatus' = "Microphone access denied"
  /\ UNCHANGED <<pageVars, envVars, netVars, micVars, msgVars, isCallActive,
                 callStartTime, timerInterval, intervals, callUI,
                 startRetries, speakTimers, flagVars, recVars, gumVars,
                 outVars>>

\* The user allows a request made by the grant button.
PermissionGrantedGrant ==
  /\ gumGrant > 0
  /\ gumGrant' = gumGrant - 1
  /\ MicGranted
  /\ UNCHANGED <<pageVars, envVars, netVars, msgVars, callVars, flagVars, recVars,
                 gumStart, outVars, permissionModalHidden>>

\* The user blocks a request made by the grant button.
PermissionDeniedGrant ==
  /\ gumGrant > 0
  /\ gumGrant' = gumGrant - 1
  /\ MicDenied
  /\ UNCHANGED <<pageVars, envVars, netVars, callVars, flagVars, recVars, gumStart,
                 outVars, permissionModalHidden>>

\* recognition.stop(): a recognizer that has not started listening ends
\* without a result; a listening one may still deliver one.
RecStop(st) ==
  CASE st = "starting" -> "ending"
    [] st = "listening" -> "stopping"
    [] OTHER -> st

\* endCall() (lines 460-513), run by a click on endCallBtn (line 101), which
\* is shown only during a call (lines 439, 494).  Where speechSynthesis is
\* missing, this.synthesis is undefined and line 484 throws: the rest of
\* the method does not run.
EndCall ==
  /\ callUI = "active"
  /\ isCallActive' = FALSE
  /\ mediaStream' = NULL
  /\ liveStreams' = liveStreams \ {mediaStream}
  /\ enabledStreams' = enabledStreams \ {mediaStream}
  /\ audioContext' = NULL
  /\ openContexts' = openContexts \ {audioContext}
  /\ recState' = IF hasRecognition /\ isRecognizing
                   THEN RecStop(recState) ELSE recState
  /\ IF hasSynthesis
       THEN /\ synthQueue' = <<>>
            /\ intervals' = intervals \ {timerInterval}
            /\ callUI' = "pre"
            /\ conversationPane' = <<>>
            /\ callTimerText' = "00:00"
            /\ messageHistory' = <<>>
            /\ isMuted' = FALSE
            /\ isOnHold' = FALSE
            /\ callStatus' = "Call ended"
            /\ micStatus' = "Not connected"
       ELSE UNCHANGED <<synthQueue, intervals, callUI, conversationPane,
                        callTimerText, messageHistory, isMuted, isOnHold,
                        callStatus, micStatus>>
  /\ UNCHANGED <<pageVars, envVars, netVars, callStartTime, timerInterval,
                 startRetries, speakTimers, muteBtnText, holdBtnText,
                 isRecognizing, isRecording, recRetries, gumVars, autoSpeak,
                 currentUtterance, paneAttached, lastTranscript,
                 permissionModalHidden>>

\* String.prototype.padStart (lines 800): s filled on the left with c up to
\* n characters; a longer s is returned as it is.
RECURSIVE PadStart(_, _, _)
PadStart(s, n, c) == IF Len(s) >= n THEN s ELSE PadStart(c \o s, n, c)

TimerTextUnpadded(elapsed) ==
  ToString(elapsed \div 60000) \o ":" \o
  ToString((elapsed % 60000) \div 1000)

\* Lines 795-800: the text for an elapsed time in milliseconds.
TimerText(elapsed) ==
  PadStart(ToString(elapsed \div 60000), 2, "0") \o ":" \o
  PadStart(ToString((elapsed % 60000) \div 1000), 2, "0")

\* Time passes between two handlers: Date.now() moves to a later instant.
TimePasses ==
  /\ \E t \in Instants : t > now /\ now' = t
  /\ UNCHANGED <<pageVars, hasCanvas, hasSynthesis, hasRecognition, netVars,
                 micVars, msgVars, callVars, flagVars, recVars, gumVars,
                 outVars, permissionModalHidden>>

\* The interval callback of startTimer (lines 792-801).
TimerTick ==
  /\ intervals # {}
  /\ callStartTime # NULL
  /\ callTimerText' = TimerText(now - callStartTime)
  /\ UNCHANGED <<pageVars, envVars, netVars, micVars, msgVars, callVars, flagVars,
                 recVars, gumVars, synthQueue, currentUtterance, autoSpeak,
                 paneAttached, lastTranscript, permissionModalHidden>>

\* toggleMute() (lines 515-542), run by a click on muteBtn (line 104).
ToggleMute ==
  /\ isMuted' = ~isMuted
  /\ enabledStreams' =
       IF mediaStream = NULL THEN enabledStreams
       ELSE IF ~isMuted THEN enabledStreams \ {mediaStream}
       ELSE enabledStreams \cup {mediaStream}
  /\ muteBtnText' = IF ~isMuted THEN "Unmute" ELSE "Mute"
  /\ UNCHANGED <<pageVars, envVars, netVars, mediaStream, liveStreams, audioContext,
                 openContexts, micStatus, msgVars, callVars, isOnHold,
                 holdBtnText, recVars, gumVars, outVars,
                 permissionModalHidden>>

\* toggleHold() (lines 544-564), run by a click on holdBtn (line 107).
ToggleHold ==
  /\ isOnHold' = ~isOnHold
  /\ holdBtnText' = IF ~isOnHold THEN "Resume" ELSE "Hold"
  /\ IF ~isOnHold
       THEN HasRoom(1) /\ AddMessage("assistant", HoldMsg, "")
       ELSE UNCHANGED msgVars
  /\ UNCHANGED <<pageVars, envVars, netVars, micVars, callVars, isMuted, muteBtnText,
                 recVars, gumVars, outVars, permissionModalHidden>>

\* ---------------------------------------------------------------- recording
\* startRecording() (lines 568-603), run by mousedown or touchstart on
\* pushToTalkBtn (lines 113-126).  recognition.start() throws
\* InvalidStateError unless the recognizer is idle; the handler then stops
\* the recognizer and sets a timer to start it again.  The speaking
\* indicator and the button's 'recording' class follow isRecording.
RecordingBlockedNoHold == ~isCallActive \/ isMuted \/ isRecording

\* The guard of line 569.
RecordingBlocked == ~isCallActive \/ isMuted \/ isOnHold \/ isRecording

StartFailedNoRetry == UNCHANGED <<recState, recRetries>>

\* The catch block of lines 589-602 for an InvalidStateError.
StartFailed ==
  /\ recRetries < MaxRecRetries
  /\ recState' = RecStop(recState)
  /\ recRetries' = recRetries + 1

StartRecording ==
  IF RecordingBlocked
    THEN UNCHANGED vars
  ELSE IF ~hasRecognition
    THEN /\ HasRoom(1)
         /\ AddMessage("assistant", NoRecognitionMsg, "")
         /\ UNCHANGED <<pageVars, envVars, netVars, micVars, callVars, flagVars,
                        recVars, gumVars, outVars, permissionModalHidden>>
  ELSE /\ isRecording' = TRUE
       /\ IF recState = "idle"
            THEN /\ recState' = "starting"
                 /\ UNCHANGED recRetries
            ELSE StartFailed
       /\ UNCHANGED <<pageVars, envVars, netVars, micVars, msgVars, callVars, flagVars,
                      isRecognizing, gumVars, outVars, permissionModalHidden>>

RecognitionRetryRequeues ==
  /\ recRetries > 0
  /\ IF recState = "idle"
       THEN recState' = "starting" /\ recRetries' = recRetries - 1
       ELSE recState' = RecStop(recState) /\ UNCHANGED recRetries
  /\ UNCHANGED <<pageVars, envVars, netVars, micVars, msgVars, callVars, flagVars,
                 isRecognizing, isRecording, gumVars, outVars,
                 permissionModalHidden>>

\* The timer of lines 594-600 fires: recognition.start() once more; an
\* exception is caught and logged.
RecognitionRetry ==
  /\ recRetries > 0
  /\ recRetries' = recRetries - 1
  /\ recState' = IF recState = "idle" THEN "starting" ELSE recState
  /\ UNCHANGED <<pageVars, envVars, netVars, micVars, msgVars, callVars, flagVars,
                 isRecognizing, isRecording, gumVars, outVars,
                 permissionModalHidden>>

\* stopRecording() with stopRecordingUI() (lines 605-621), run by mouseup or
\* touchend on pushToTalkBtn (lines 117-130).
StopRecording ==
  IF ~isRecording
    THEN UNCHANGED vars
    ELSE /\ recState' = IF hasRecognition /\ isRecognizing
                          THEN RecStop(recState) ELSE recState
         /\ isRecording' = FALSE
         /\ UNCHANGED <<pageVars, envVars, netVars, micVars, msgVars, callVars,
                        flagVars, isRecognizing, recRetries, gumVars, outVars,
                        permissionModalHidden>>

\* recognition.onstart (lines 273-276).
RecognitionOnStart ==
  /\ recState = "starting"
  /\ recState' = "listening"
  /\ isRecognizing' = TRUE
  /\ UNCHANGED <<pageVars, envVars, netVars, micVars, msgVars, callVars, flagVars,
                 isRecording, recRetries, gumVars, outVars,
                 permissionModalHidden>>

\* !text || !text.trim() (line 626, and line 751 for the text to speak).
IsBlank(text) == \A i \in 1..Len(text) : text[i] = " "

HandleSpeechInputDedup(text) ==
  IF IsBlank(text) \/ [role |-> "user", text |-> text] \in
                        {messageHistory[i] : i \in 1..Len(messageHistory)}
    THEN UNCHANGED <<msgVars, emitted>>
  ELSE IF isConnected
    THEN /\ HasTurnRoom(2) /\ Len(emitted) < MaxEmitted
         /\ emitted' = Append(emitted,
                              [text |-> text, session_id |-> sessionId,
                               timestamp |-> "now"])
         /\ AddMessages("user", text, "", "assistant", LoadingDots, "loading")
    ELSE /\ HasTurnRoom(2)
         /\ AddMessages("user", text, "", "assistant", NotConnectedMsg, "")
         /\ UNCHANGED emitted

HandleSpeechInputBuffered(text) ==
  IF IsBlank(text)
    THEN UNCHANGED <<msgVars, emitted>>
    ELSE /\ HasTurnRoom(2) /\ Len(emitted) < MaxEmitted
         /\ emitted' = Append(emitted,
                              [text |-> text, session_id |-> sessionId,
                               timestamp |-> "now"])
         /\ AddMessages("user", text, "", "assistant", LoadingDots, "loading")

\* handleSpeechInput(text) (lines 625-656).
HandleSpeechInput(text) ==
  IF IsBlank(text)
    THEN UNCHANGED <<msgVars, emitted>>
  ELSE IF isConnected
    THEN /\ HasTurnRoom(2) /\ Len(emitted) < MaxEmitted
         /\ emitted' = Append(emitted,
                              [text |-> text, session_id |-> sessionId,
                               timestamp |-> "now"])
         /\ AddMessages("user", text, "", "assistant", LoadingDots, "loading")
    ELSE /\ HasTurnRoom(2)
         /\ AddMessages("user", text, "", "assistant", NotConnectedMsg, "")
         /\ UNCHANGED emitted

\* recognition.onresult (lines 278-283): the one final result of a turn
\* (continuous and interimResults are false), after which the turn ends.
RecognitionOnResult ==
  /\ recState \in {"listening", "stopping"}
  /\ recState' = "ending"
  /\ \E text \in Transcripts :
       /\ lastTranscript' = text
       /\ HandleSpeechInput(text)
  /\ UNCHANGED <<pageVars, envVars, isConnected, sessionId, micVars, callVars,
                 flagVars, isRecognizing, isRecording, recRetries, gumVars,
                 synthQueue, currentUtterance, autoSpeak, callTimerText,
                 paneAttached, permissionModalHidden>>

RecognitionErrorAllReported(err) ==
  /\ isRecording' = FALSE
  /\ CASE err = "not-allowed" ->
            /\ micStatus' = "Permission denied"
            /\ permissionModalHidden' = FALSE
            /\ UNCHANGED msgVars
       [] OTHER ->
            /\ HasRoom(1)
            /\ AddMessage("assistant", NetworkErrorMsg, "")
            /\ UNCHANGED <<micStatus, permissionModalHidden>>

\* The body of recognition.onerror (lines 285-298) for an error of category
\* err, with stopRecordingUI() (lines 617-621).
RecognitionError(err) ==
  /\ isRecording' = FALSE
  /\ CASE err = "not-allowed" ->
            /\ micStatus' = "Permission denied"
            /\ permissionModalHidden' = FALSE
            /\ UNCHANGED msgVars
       [] err = "network" ->
            /\ HasRoom(1)
            /\ AddMessage("assistant", NetworkErrorMsg, "")
            /\ UNCHANGED <<micStatus, permissionModalHidden>>
       [] OTHER ->
            UNCHANGED <<msgVars, micStatus, permissionModalHidden>>

\* recognition.onerror (lines 285-298): the recognizer reports an error,
\* after which the turn ends.
RecognitionOnError ==
  /\ recState \in {"starting", "listening", "stopping"}
  /\ recState' = "ending"
  /\ \E err \in RecErrors : RecognitionError(err)
  /\ UNCHANGED <<pageVars, envVars, netVars, mediaStream, liveStreams, enabledStreams,
                 audioContext, openContexts, callVars, flagVars,
                 isRecognizing, recRetries, gumVars, outVars>>

\* recognition.onend (lines 300-304) with stopRecordingUI().
RecognitionOnEnd ==
  /\ recState \in {"listening", "stopping", "ending"}
  /\ recState' = "idle"
  /\ isRecognizing' = FALSE
  /\ isRecording' = FALSE
  /\ UNCHANGED <<pageVars, envVars, netVars, micVars, msgVars, callVars, flagVars,
                 recRetries, gumVars, outVars, permissionModalHidden>>

\* ------------------------------------------------------------ text-to-speech
HtmlTags == {"<br>", "<div class=\"loading-dots\">", "</div>"}
BoldMark == "**"
IsMarkup(tok) == tok \in HtmlTags \/ tok = BoldMark

\* The three replace() calls of lines 746-749.
CleanText(text) == SelectSeq(text, LAMBDA tok : ~IsMarkup(tok))

SpeakNoCancel(text) ==
  IF ~hasSynthesis \/ IsBlank(CleanText(text))
    THEN UNCHANGED <<synthQueue, currentUtterance>>
    ELSE /\ synthQueue' = Append(synthQueue, CleanText(text))
         /\ currentUtterance' = CleanText(text)

\* speak(text) (lines 736-787): synthesis.cancel() empties the queue of
\* the synthesizer, synthesis.speak(utterance) appends to it.
Speak(text) ==
  IF ~hasSynthesis
    THEN UNCHANGED <<synthQueue, currentUtterance>>
  ELSE IF IsBlank(CleanText(text))
    THEN /\ synthQueue' = <<>>
         /\ UNCHANGED currentUtterance
  ELSE /\ synthQueue' = <<CleanText(text)>>
       /\ currentUtterance' = CleanText(text)

\* A timer of line 454 or 679 fires.  Timers of equal delay fire in the
\* order they were set.
CanFire(i) == \A j \in 1..(i - 1) : speakTimers[j].delay > speakTimers[i].delay

RemoveAt(seq, i) == SubSeq(seq, 1, i - 1) \o SubSeq(seq, i + 1, Len(seq))

SpeakTimerFires ==
  /\ \E i \in 1..Len(speakTimers) :
       /\ CanFire(i)
       /\ Speak(speakTimers[i].text)
       /\ speakTimers' = RemoveAt(speakTimers, i)
  /\ UNCHANGED <<pageVars, envVars, netVars, micVars, msgVars, isCallActive,
                 callStartTime, timerInterval, intervals, callUI, callStatus,
                 startRetries, flagVars, recVars, gumVars, autoSpeak,
                 callTimerText, paneAttached, lastTranscript,
                 permissionModalHidden>>

\* The utterance being spoken ends (utterance.onend, lines 777-779).
UtteranceEnds ==
  /\ synthQueue # <<>>
  /\ synthQueue' = Tail(synthQueue)
  /\ UNCHANGED <<pageVars, envVars, netVars, micVars, msgVars, callVars, flagVars,
                 recVars, gumVars, currentUtterance, autoSpeak, callTimerText,
                 paneAttached, lastTranscript, permissionModalHidden>>

\* The autoSpeak check box changes (lines 189-191).
AutoSpeakChange ==
  /\ autoSpeak' = ~autoSpeak
  /\ UNCHANGED <<pageVars, envVars, netVars, micVars, msgVars, callVars, flagVars,
                 recVars, gumVars, synthQueue, currentUtterance,
                 callTimerText, paneAttached, lastTranscript,
                 permissionModalHidden>>

\* ------------------------------------------------------------ voice response
\* handleVoiceResponse(data) (lines 658-681), run by socket.on
\* ('voice_response') (lines 227-230) for the reply to the oldest
\* unanswered voice_input.  querySelector('.loading') finds the message
\* element of the first placeholder; its parentElement is the conversation
\* pane, which remove() takes out of the document with all its children.
HasLoading == \E i \in 1..Len(conversationPane) :
                conversationPane[i].cls = "loading"

HandleVoiceResponseAlwaysSpeaks(data) ==
  /\ HasTurnRoom(1)
  /\ paneAttached' = IF HasLoading THEN FALSE ELSE paneAttached
  /\ AddMessage("assistant", data.text, "")
  /\ callStatus' = IF data.used_rag THEN "Answer from documents"
                   ELSE "General knowledge"
  /\ Len(speakTimers) < MaxSpeakTimers
  /\ speakTimers' = Append(speakTimers,
                      [text |-> data.text, delay |-> ResponseDelay])

HandleVoiceResponseGuarded(data) ==
  IF ~isCallActive
    THEN UNCHANGED <<paneAttached, msgVars, callStatus, speakTimers>>
    ELSE /\ HasTurnRoom(1)
         /\ paneAttached' = IF HasLoading THEN FALSE ELSE paneAttached
         /\ AddMessage("assistant", data.text, "")
         /\ callStatus' = IF data.used_rag THEN "Answer from documents"
                          ELSE "General knowledge"
         /\ IF autoSpeak
              THEN /\ Len(speakTimers) < MaxSpeakTimers
                   /\ speakTimers' = Append(speakTimers,
                        [text |-> data.text, delay |-> ResponseDelay])
              ELSE UNCHANGED speakTimers

HandleVoiceResponse(data) ==
  /\ HasTurnRoom(1)
  /\ paneAttached' = IF HasLoading THEN FALSE ELSE paneAttached
  /\ AddMessage("assistant", data.text, "")
  /\ callStatus' = IF data.used_rag THEN "Answer from documents"
                   ELSE "General knowledge"
  /\ IF autoSpeak
       THEN /\ Len(speakTimers) < MaxSpeakTimers
            /\ speakTimers' = Append(speakTimers,
                                [text |-> data.text, delay |-> ResponseDelay])
       ELSE UNCHANGED speakTimers

\* socket.on('voice_response') (lines 227-230): the reply to the oldest
\* unanswered voice_input arrives.
VoiceResponse ==
  /\ emitted # <<>>
  /\ emitted' = Tail(emitted)
  /\ \E data \in ResponseData : HandleVoiceResponse(data)
  /\ UNCHANGED <<pageVars, envVars, isConnected, sessionId, micVars, isCallActive,
                 callStartTime, timerInterval, intervals, callUI,
                 startRetries, flagVars, recVars, gumVars, synthQueue,
                 currentUtterance, autoSpeak, callTimerText, lastTranscript,
                 permissionModalHidden>>

\* ------------------------------------------------- ingestion (add_data.js)
\* What the user can put in the text area (lengths around the minimum, with
\* and without white space around), and what the backend can reply.
CoreLengths == {0, 10, 49, 50, 60}
InputValues == [lead : 0..1, core : CoreLengths, trail : 0..1]
NodesAdded == {0, 3}
ErrorTexts == {<<"No data provided">>, <<"undefined">>}

\* String.prototype.trim and String.prototype.length.
Trim(v) == [lead |-> 0, core |-> v.core, trail |-> 0]
Length(v) == v.lead + v.core + v.trail

EmptyMsg == <<"Please enter some document content.">>
TooShortMsg ==
  <<"Document is too short. Please provide at least 50 characters.">>
SuccessMsg(n) == <<"Success! Added ", ToString(n),
                   " document chunk(s) to knowledge base.">>
ErrorMsg(err) == <<"Error: ">> \o err
NetworkErrorText == <<"Network Error: ", "error.message">>

\* showMessage(text, type) (add_data.js lines 69-99): the message replaces
\* what the response element shows; a success message sets a timer that
\* empties the element 5 seconds later.
ShowMessage(text, type) ==
  /\ responseDiv' = [type |-> type, text |-> text]
  /\ IF type = "success"
       THEN hideTimers < MaxHideTimers /\ hideTimers' = hideTimers + 1
       ELSE UNCHANGED hideTimers

\* The user edits the text area.
DataInputChange ==
  /\ \E v \in InputValues : dataInput' = v
  /\ UNCHANGED <<voiceVars, chatVars, responseDiv, submitDisabled,
                 formPending, posted, hideTimers>>

FormDataUntrimmed == dataInput

\* const data = dataInput.value.trim() (line 11).
FormData == Trim(dataInput)

\* The submit handler up to its first await (lines 5-36).  A form whose
\* submit button is disabled cannot be submitted by the user.
SubmitForm ==
  /\ ~submitDisabled
  /\ IF Length(FormData) = 0
       THEN /\ ShowMessage(EmptyMsg, "error")
            /\ UNCHANGED <<submitDisabled, formPending, posted>>
     ELSE IF Length(FormData) < MinLength
       THEN /\ ShowMessage(TooShortMsg, "error")
            /\ UNCHANGED <<submitDisabled, formPending, posted>>
     ELSE /\ posted < MaxPosts
          /\ submitDisabled' = TRUE
          /\ formPending' = Append(formPending, FormData)
          /\ posted' = posted + 1
          /\ UNCHANGED <<responseDiv, hideTimers>>
  /\ UNCHANGED <<voiceVars, chatVars, dataInput>>

ButtonLeftDisabled == UNCHANGED submitDisabled

\* The finally block (lines 61-66).
ReenableButton == submitDisabled' = FALSE

AddDataOkKeepsInput(n) ==
  /\ ShowMessage(SuccessMsg(n), "success")
  /\ UNCHANGED dataInput
  /\ ReenableButton

\* The handler after a reply with response.ok and the JSON body
\* {nodes_added: n} (lines 38-54, 61-66).
AddDataOk(n) ==
  /\ ShowMessage(SuccessMsg(n), "success")
  /\ dataInput' = EmptyInput
  /\ ReenableButton

\* The handler after a reply that is not ok, with the JSON body {error: err}
\* (lines 38-40, 56-57, 61-66).
AddDataError(err) ==
  /\ ShowMessage(ErrorMsg(err), "error")
  /\ UNCHANGED dataInput
  /\ ReenableButton

\* The handler after fetch rejects or response.json() throws (lines 59-66).
AddDataFails ==
  /\ ShowMessage(NetworkErrorText, "error")
  /\ UNCHANGED dataInput
  /\ ReenableButton

\* The request in flight settles.
AddDataReplyOk ==
  /\ formPending # <<>>
  /\ formPending' = Tail(formPending)
  /\ \E n \in NodesAdded : AddDataOk(n)
  /\ UNCHANGED <<voiceVars, chatVars, posted>>

AddDataReplyError ==
  /\ formPending # <<>>
  /\ formPending' = Tail(formPending)
  /\ \E err \in ErrorTexts : AddDataError(err)
  /\ UNCHANGED <<voiceVars, chatVars, posted>>

AddDataRequestFails ==
  /\ formPending # <<>>
  /\ formPending' = Tail(formPending)
  /\ AddDataFails
  /\ UNCHANGED <<voiceVars, chatVars, posted>>

\* The timer of a success message fires (lines 94-96): whatever the
\* response element shows by then is removed.
HideTimerFires ==
  /\ hideTimers > 0
  /\ hideTimers' = hideTimers - 1
  /\ responseDiv' = NoMessage
  /\ UNCHANGED <<voiceVars, chatVars, dataInput, submitDisabled, formPending,
                 posted>>

\* The close button of a message (line 84).
DismissMessage ==
  /\ responseDiv # NoMessage
  /\ responseDiv' = NoMessage
  /\ UNCHANGED <<voiceVars, chatVars, dataInput, submitDisabled, formPending,
                 posted, hideTimers>>

\* ------------------------------------------------------- chat (script.js)
\* What the user can type (one text of white space only, one with a line
\* break), and the bodies {answer, images} /api/chat can reply with.
ChatTexts == {<<"Hello">>, <<" ">>, <<"a", "\n", "b">>}
ChatAnswers == {<<"Hello">>, <<"line", "\n", "line">>}
ImageLists == {<<>>, <<"a.png", "b.png">>}
ChatReplies == [answer : ChatAnswers, images : ImageLists]

\* text.replace(/\n/g, '<br>') (line 152).
Nl2Br(text) ==
  [i \in 1..Len(text) |-> IF text[i] = "\n" THEN "<br>" ELSE text[i]]

LoadingBubbleHtml == <<"<div class=\"flex gap-2\">", "</div>">>

\* The element appendMessage(role, text, isLoading, images) adds to chatPane
\* (lines 147-174): the content, the loading-bubble class and one img per
\* entry of images.
Bubble(role, text, isLoading, images) ==
  [role |-> role,
   content |-> IF isLoading THEN LoadingBubbleHtml ELSE Nl2Br(text),
   loading |-> isLoading,
   images |-> images]

LoadingBubbles(pane) == {i \in 1..Len(pane) : pane[i].loading}

\* document.querySelector('.loading-bubble').remove() (line 138): the first
\* loading bubble of the pane goes.
RemoveFirstLoading(pane) ==
  LET i == CHOOSE k \in LoadingBubbles(pane) :
             \A l \in LoadingBubbles(pane) : k <= l
  IN  SubSeq(pane, 1, i - 1) \o SubSeq(pane, i + 1, Len(pane))

\* The user types in messageInput.
MessageInputChange ==
  /\ \E text \in ChatTexts : messageInput' = text
  /\ UNCHANGED <<voiceVars, formVars, chatPane, chatPending, voicePending,
                 chatStatus, liveTranscript, callImages>>

\* sendMessage(text, fromVoice) up to its first await (lines 85-105).
SendMessage(text, fromVoice) ==
  IF IsBlank(text)
    THEN UNCHANGED <<messageInput, chatPane, chatPending, voicePending,
                     chatStatus>>
  ELSE IF fromVoice
    THEN /\ voicePending < MaxPending
         /\ voicePending' = voicePending + 1
         /\ chatStatus' = "THINKING..."
         /\ UNCHANGED <<messageInput, chatPane, chatPending>>
    ELSE /\ chatPending < MaxPending /\ Len(chatPane) + 2 <= MaxBubbles
         /\ chatPending' = chatPending + 1
         /\ chatPane' = chatPane \o <<Bubble("user", text, FALSE, <<>>),
                                      Bubble("bot", <<"...">>, TRUE, <<>>)>>
         /\ messageInput' = <<>>
         /\ UNCHANGED <<voicePending, chatStatus>>

\* A click on sendBtn or Enter in messageInput (lines 177-180).
SendClick ==
  /\ SendMessage(messageInput, FALSE)
  /\ UNCHANGED <<voiceVars, formVars, liveTranscript, callImages>>

\* recognition.onresult of the chat page with a final result (lines 35-41).
FinalTranscript ==
  /\ \E text \in ChatTexts :
       /\ liveTranscript' = text
       /\ SendMessage(text, TRUE)
  /\ UNCHANGED <<voiceVars, formVars, callImages>>

ChatReplyKeepsLoading(data) ==
  chatPane' = Append(chatPane, Bubble("bot", data.answer, FALSE, data.images))

\* sendMessage in chat mode after the reply {answer, images} is parsed
\* (lines 106, 136-140).
ChatReply(data) ==
  IF LoadingBubbles(chatPane) = {}
    THEN UNCHANGED chatPane
    ELSE chatPane' = Append(RemoveFirstLoading(chatPane),
                            Bubble("bot", data.answer, FALSE, data.images))

\* The reply to a text chat request arrives.
ChatReplyArrives ==
  /\ chatPending > 0
  /\ chatPending' = chatPending - 1
  /\ \E data \in ChatReplies : ChatReply(data)
  /\ UNCHANGED <<voiceVars, formVars, messageInput, voicePending, chatStatus,
                 liveTranscript, callImages>>

\* The reply to a text chat request has a JSON body without answer (an
\* error body): the loading bubble is removed (line 138), text.replace
\* throws in appendMessage (line 152) and the catch block logs (line 143).
ChatReplyWithoutAnswer ==
  /\ chatPending > 0
  /\ chatPending' = chatPending - 1
  /\ chatPane' = IF LoadingBubbles(chatPane) = {} THEN chatPane
                 ELSE RemoveFirstLoading(chatPane)
  /\ UNCHANGED <<voiceVars, formVars, messageInput, voicePending, chatStatus,
                 liveTranscript, callImages>>

\* fetch rejects or res.json() throws for a text chat request: the catch
\* block logs (lines 142-144).
ChatRequestFails ==
  /\ chatPending > 0
  /\ chatPending' = chatPending - 1
  /\ UNCHANGED <<voiceVars, formVars, messageInput, chatPane, voicePending,
                 chatStatus, liveTranscript, callImages>>

\* sendMessage in call mode after the reply is parsed (lines 108-134); the
\* audio player is not modelled.
VoiceReplyArrives ==
  /\ voicePending > 0
  /\ voicePending' = voicePending - 1
  /\ \E data \in ChatReplies :
       /\ chatStatus' = "SPEAKING..."
       /\ liveTranscript' = data.answer
       /\ callImages' = data.images
  /\ UNCHANGED <<voiceVars, formVars, messageInput, chatPane, chatPending>>

\* fetch rejects or res.json() throws for a voice-mode request.
VoiceRequestFails ==
  /\ voicePending > 0
  /\ voicePending' = voicePending - 1
  /\ UNCHANGED <<voiceVars, formVars, messageInput, chatPane, chatPending,
                 chatStatus, liveTranscript, callImages>>

Next ==
  \/ TimePasses
  \/ SocketConnect
  \/ SocketDisconnect
  \/ ConnectionStatus
  \/ SocketError
  \/ StartCallClick
  \/ StartCallRetry
  \/ PermissionGrantedStart
  \/ PermissionDeniedStart
  \/ GrantPermissionClick
  \/ CancelPermissionClick
  \/ PermissionGrantedGrant
  \/ PermissionDeniedGrant
  \/ EndCall
  \/ TimerTick
  \/ ToggleMute
  \/ ToggleHold
  \/ StartRecording
  \/ RecognitionRetry
  \/ StopRecording
  \/ RecognitionOnStart
  \/ RecognitionOnResult
  \/ RecognitionOnError
  \/ RecognitionOnEnd
  \/ SpeakTimerFires
  \/ UtteranceEnds
  \/ AutoSpeakChange
  \/ VoiceResponse
  \/ MessageInputChange
  \/ SendClick
  \/ FinalTranscript
  \/ ChatReplyArrives
  \/ ChatReplyWithoutAnswer
  \/ ChatRequestFails
  \/ VoiceReplyArrives
  \/ VoiceRequestFails
  \/ DataInputChange
  \/ SubmitForm
  \/ AddDataReplyOk
  \/ AddDataReplyError
  \/ AddDataRequestFails
  \/ HideTimerFires
  \/ DismissMessage

Spec == Init /\ [][Next]_vars

\* The specifications the properties are checked under: each is the program
\* with the user and the environment doing part of what they can do, from
\* the initial states where the features it does not exercise are present.

\* Starting and ending calls: the transport, the start button and its
\* retries, the permission requests and the modal's buttons, the end
\* button, the call timer and the welcome utterance.
CallInit == Init /\ hasRecognition /\ hasSynthesis

CallNext ==
  \/ SocketConnect
  \/ SocketDisconnect
  \/ StartCallClick
  \/ StartCallRetry
  \/ PermissionGrantedStart
  \/ PermissionDeniedStart
  \/ GrantPermissionClick
  \/ CancelPermissionClick
  \/ PermissionGrantedGrant
  \/ PermissionDeniedGrant
  \/ EndCall
  \/ TimerTick
  \/ SpeakTimerFires
  \/ UtteranceEnds

CallSpec == CallInit /\ [][CallNext]_vars

\* Deferred call starts, with the timers that must fire in the end.
RetryNext ==
  \/ SocketConnect
  \/ SocketDisconnect
  \/ StartCallClick
  \/ StartCallRetry
  \/ PermissionGrantedStart
  \/ PermissionDeniedStart
  \/ EndCall
  \/ SpeakTimerFires
  \/ UtteranceEnds

RetrySpec ==
  /\ CallInit
  /\ [][RetryNext]_vars
  /\ WF_vars(StartCallRetry)
  /\ WF_vars(SpeakTimerFires)

\* One call with push-to-talk turns: the gesture, the mute and hold
\* controls, the recognizer's events and the transcripts sent.
TalkInit == Init /\ hasCanvas

TalkNext ==
  \/ SocketConnect
  \/ SocketDisconnect
  \/ StartCallClick
  \/ PermissionGrantedStart
  \/ ToggleMute
  \/ ToggleHold
  \/ StartRecording
  \/ RecognitionRetry
  \/ StopRecording
  \/ RecognitionOnStart
  \/ RecognitionOnResult
  \/ RecognitionOnError
  \/ RecognitionOnEnd

TalkSpec == TalkInit /\ [][TalkNext]_vars

\* Speech output: the welcome and the replies of the backend, over calls
\* started with the microphone granted.
SpeakInit == Init /\ hasCanvas /\ hasRecognition

SpeakNext ==
  \/ SocketConnect
  \/ StartCallClick
  \/ PermissionGrantedStart
  \/ EndCall
  \/ StartRecording
  \/ RecognitionOnStart
  \/ RecognitionOnResult
  \/ RecognitionOnEnd
  \/ SpeakTimerFires
  \/ UtteranceEnds
  \/ VoiceResponse

SpeakSpec == SpeakInit /\ [][SpeakNext]_vars

\* The voice turns of one call and their replies over a transport that
\* stays connected, with the auto-speak setting changing.
ReplyInit == Init /\ hasCanvas /\ hasRecognition /\ hasSynthesis

ReplyNext ==
  \/ SocketConnect
  \/ StartCallClick
  \/ PermissionGrantedStart
  \/ StartRecording
  \/ RecognitionOnStart
  \/ RecognitionOnResult
  \/ RecognitionOnEnd
  \/ AutoSpeakChange
  \/ SpeakTimerFires
  \/ VoiceResponse

ReplySpec == ReplyInit /\ [][ReplyNext]_vars

\* The chat page on its own.
ChatInit == Init /\ hasCanvas /\ hasSynthesis /\ hasRecognition

ChatNext ==
  \/ MessageInputChange
  \/ SendClick
  \/ FinalTranscript
  \/ ChatReplyArrives
  \/ ChatReplyWithoutAnswer
  \/ ChatRequestFails
  \/ VoiceReplyArrives
  \/ VoiceRequestFails

ChatSpec == ChatInit /\ [][ChatNext]_vars

\* The ingestion page on its own.
FormInit == Init /\ hasCanvas /\ hasSynthesis /\ hasRecognition

FormNext ==
  \/ DataInputChange
  \/ SubmitForm
  \/ AddDataReplyOk
  \/ AddDataReplyError
  \/ AddDataRequestFails
  \/ HideTimerFires
  \/ DismissMessage

FormSpec == FormInit /\ [][FormNext]_vars

\* ------------------------------------------------------------ properties
\* C1: endCall, from any state with an active call, leaves the system Idle:
\* isCallActive is false, the tracks of the microphone stream are stopped
\* and mediaStream is null, no call timer interval is left ticking, and
\* messageHistory is empty.
C1_EndCallLeavesIdle ==
  [][(EndCall /\ isCallActive) =>
       /\ ~isCallActive'
       /\ mediaStream' = NULL
       /\ mediaStream \notin liveStreams'
       /\ intervals' = {}
       /\ messageHistory' = <<>>]_vars

\* C3: getUserMedia never succeeds while a stream is already held, and
\* startCall never activates a call that is already active: one
\* acquisition and one activation per call, whatever the start, grant and
\* cancel buttons and the permission answers do.
C3_AcquiredAndActivatedOnce ==
  [][/\ (liveStreams' \ liveStreams # {}) => mediaStream = NULL
     /\ (intervals' \ intervals # {}) => ~isCallActive]_vars

\* C4: no stream with unstopped tracks exists other than the one mediaStream
\* refers to.
C4_OneLiveStream == liveStreams \subseteq {mediaStream}

\* C8: while no call is active, no stream with live tracks and no open
\* audio context is held.
C8_HeldOnlyInCall == ~isCallActive => (liveStreams = {} /\ openContexts = {})

\* C10: when the permission request made by startCall is denied, the call
\* is Idle (isCallActive false, no timer running, mediaStream null) and the
\* message that microphone access is needed is appended to a conversation
\* pane the user can see.
C10_DeniedStaysIdle ==
  [][PermissionDeniedStart =>
       /\ ~isCallActive'
       /\ intervals' = {}
       /\ mediaStream' = NULL
       /\ messageHistory' # <<>>
       /\ messageHistory'[Len(messageHistory')] =
            [role |-> "assistant", text |-> MicNeededMsg]
       /\ paneAttached']_vars

\* C2: a push-to-talk press starts recognition and sets isRecording only
\* when the call is active, not muted, not on hold and not yet recording;
\* in every other state the press changes nothing.
PressAllowed == isCallActive /\ ~isMuted /\ ~isOnHold /\ ~isRecording

C2_PressOnlyWhenAllowed ==
  [][/\ (StartRecording /\ ~PressAllowed) => UNCHANGED vars
     /\ (isRecording' /\ ~isRecording) => PressAllowed
     /\ (recState = "idle" /\ recState' = "starting"
           /\ recRetries' = recRetries) => PressAllowed]_vars

\* A press is refused here: a muted call on hold with nothing recording.
C2_Witness ==
  /\ isCallActive /\ isMuted /\ isOnHold
  /\ hasRecognition /\ ~isRecording /\ recState = "idle"

\* C5 as claimed: a press that finds a recognition turn still running is
\* rejected and nothing is queued: the turn goes on and no start is pending.
C5_RejectedNotQueued ==
  [][(StartRecording /\ recState # "idle") =>
       (recState' = recState /\ recRetries' = recRetries)]_vars

\* C5 as amended: a press while isRecording is set changes nothing, and a
\* press accepted while the recognizer is still running stops the running
\* turn and leaves one more recognition.start pending on the timer.
C5_StoppedAndRetried ==
  [][/\ (StartRecording /\ isRecording) => UNCHANGED vars
     /\ (isRecording' /\ ~isRecording /\ recState # "idle") =>
          /\ recState' \in {"stopping", "ending"}
          /\ recRetries' = recRetries + 1]_vars

\* A second press found the recognizer running: the turn is ending and a
\* start is pending.
C5_Witness ==
  isRecording /\ recRetries > 0 /\ recState \in {"stopping", "ending"}

\* C6: every transcript that is not blank, handled while the transport is
\* connected, adds its own user entry to messageHistory and is emitted as
\* its own voice_input, whatever was handled before.
C6_NoDeduplication ==
  [][(RecognitionOnResult /\ isConnected /\ ~IsBlank(lastTranscript')) =>
       /\ messageHistory' = messageHistory \o
            <<[role |-> "user", text |-> lastTranscript'],
              [role |-> "assistant", text |-> LoadingDots]>>
       /\ emitted' = Append(emitted, [text |-> lastTranscript',
                                      session_id |-> sessionId,
                                      timestamp |-> "now"])]_vars

\* The same transcript was handled twice: two user entries, two emissions.
C6_Witness ==
  /\ Len(emitted) = 2 /\ emitted[1].text = emitted[2].text
  /\ \E i, j \in 1..Len(messageHistory) :
       /\ i < j
       /\ messageHistory[i] = [role |-> "user", text |-> emitted[1].text]
       /\ messageHistory[j] = messageHistory[i]

\* C7: at most one utterance is outstanding, and it is the utterance of the
\* latest speak call that made one.
C7_OneUtterance ==
  /\ Len(synthQueue) <= 1
  /\ synthQueue # <<>> => Head(synthQueue) = currentUtterance

\* A reply is being spoken, cleaned of its markup, after the welcome was.
C7_Witness ==
  /\ synthQueue = << <<"Hi there">> >>
  /\ speakTimers # <<>>

\* C9: a startCall that passes the microphone check while the transport is
\* not connected activates nothing and leaves a startCall timer of 2000 ms
\* pending with the 'connecting' message; and if the transport connects for
\* good, a pending retry that holds the microphone leads to an active call
\* (or to a bound of the model).
PassesMicCheck ==
  \/ (StartCallClick \/ StartCallRetry) /\ mediaStream # NULL
  \/ PermissionGrantedStart

C9_DeferredThenActive ==
  /\ [][(PassesMicCheck /\ ~isConnected) =>
          /\ isCallActive' = isCallActive
          /\ intervals' = intervals
          /\ startRetries' # <<>>
          /\ startRetries'[Len(startRetries')] = RetryDelay
          /\ messageHistory' = Append(messageHistory,
               [role |-> "assistant", text |-> ConnectingMsg])]_vars
  /\ <>[]isConnected =>
       []((startRetries # <<>> /\ mediaStream # NULL) =>
            <>(\/ isCallActive
               \/ ~HasRoom(1)
               \/ Cardinality(intervals) >= MaxTimers))

\* A deferred start became an active call.
C9_Witness ==
  /\ isCallActive
  /\ messageHistory =
       <<[role |-> "assistant", text |-> ConnectingMsg],
         [role |-> "assistant", text |-> Welcome]>>

\* C11: a handled voice_response {text, used_rag} sets the call status to
\* the document-based text when used_rag is true and to the general-knowledge
\* text otherwise, and sets the timer that calls speak with the response
\* text if and only if auto-speak is enabled.
C11_StatusAndSpeech ==
  [][\A data \in ResponseData :
       (emitted # <<>> /\ emitted' = Tail(emitted)
          /\ HandleVoiceResponse(data)) =>
         /\ callStatus' = IF data.used_rag THEN "Answer from documents"
                          ELSE "General knowledge"
         /\ autoSpeak => speakTimers' = Append(speakTimers,
                           [text |-> data.text, delay |-> ResponseDelay])
         /\ ~autoSpeak => speakTimers' = speakTimers]_vars

\* A document-based reply was handled with auto-speak on: its text waits to
\* be spoken.
C11_Witness ==
  /\ callStatus = "Answer from documents"
  /\ autoSpeak
  /\ \E i \in 1..Len(speakTimers) :
       speakTimers[i] = [text |-> <<"**", "Hi there", "**">>,
                         delay |-> ResponseDelay]

\* C13: a voice_response handled when no call is active is handled as during
\* a call: the assistant message is appended and the status is updated,
\* and no call becomes active.
C13_StaleResponseHandled ==
  [][\A data \in ResponseData :
       (~isCallActive /\ emitted # <<>> /\ emitted' = Tail(emitted)
          /\ HandleVoiceResponse(data)) =>
         /\ messageHistory' = Append(messageHistory,
              [role |-> "assistant", text |-> data.text])
         /\ conversationPane' = Append(conversationPane,
              Msg("assistant", data.text, ""))
         /\ callStatus' = IF data.used_rag THEN "Answer from documents"
                          ELSE "General knowledge"
         /\ ~isCallActive']_vars

\* The call was ended, which cleared the history, and the reply to a
\* transcript of that call was handled afterwards.
C13_Witness ==
  /\ ~isCallActive /\ callUI = "pre"
  /\ callStatus \in {"Answer from documents", "General knowledge"}
  /\ Len(messageHistory) = 1
  /\ messageHistory[1].text \in ResponseTexts

\* C19: the number of 'thinking' placeholders in the conversation pane is
\* the number of voice_input events that have had no response yet.
NumPlaceholders ==
  Cardinality({i \in 1..Len(conversationPane) :
                 conversationPane[i].cls = "loading"})

C19_PlaceholdersMatchPending == NumPlaceholders = Len(emitted)

\* C18: a final transcript that is not blank, handled while the transport
\* is connected, emits one voice_input with the text, the session id and a
\* time stamp and appends the user message followed by one placeholder;
\* handled while disconnected it emits nothing, appends no placeholder and
\* appends the 'not connected' message after the user message; and nothing
\* is emitted later when the transport connects.
C18_EmitOrNotConnected ==
  [][/\ (RecognitionOnResult /\ ~IsBlank(lastTranscript')) =>
          IF isConnected
            THEN /\ emitted' = Append(emitted,
                      [text |-> lastTranscript', session_id |-> sessionId,
                       timestamp |-> "now"])
                 /\ conversationPane' = conversationPane \o
                      <<Msg("user", lastTranscript', ""),
                        Msg("assistant", LoadingDots, "loading")>>
            ELSE /\ emitted' = emitted
                 /\ conversationPane' = conversationPane \o
                      <<Msg("user", lastTranscript', ""),
                        Msg("assistant", NotConnectedMsg, "")>>
     /\ (~isConnected /\ isConnected') => emitted' = emitted]_vars

\* A transcript was handled while disconnected and the transport has
\* connected again since: nothing was sent.
C18_Witness ==
  /\ isConnected /\ emitted = <<>>
  /\ \E i \in 2..Len(conversationPane) :
       /\ conversationPane[i] = Msg("assistant", NotConnectedMsg, "")
       /\ conversationPane[i - 1] = Msg("user", <<"hello">>, "")

\* C20 as claimed: a recognition error of category 'no-speech' changes none
\* of the call flags (active, muted, held, recording), nor the message
\* history, nor the status.
C20_NoSpeechChangesNothing ==
  [][(recState \in {"starting", "listening", "stopping"}
        /\ recState' = "ending" /\ RecognitionError("no-speech")) =>
       UNCHANGED <<isCallActive, isMuted, isOnHold, isRecording,
                   messageHistory, conversationPane, callStatus>>]_vars

\* C20 as amended: a 'no-speech' error adds no message and changes neither
\* the status nor the active, muted and held flags; it clears isRecording.
C20_NoSpeechEndsRecording ==
  [][(recState \in {"starting", "listening", "stopping"}
        /\ recState' = "ending" /\ RecognitionError("no-speech")) =>
       /\ UNCHANGED <<isCallActive, isMuted, isOnHold, messageHistory,
                      conversationPane, callStatus, micStatus>>
       /\ ~isRecording']_vars

\* A turn that had started listening ended on an error that left no message
\* and no permission notice, before any transcript was delivered.
C20_Witness ==
  /\ isCallActive /\ recState = "ending" /\ isRecognizing /\ ~isRecording
  /\ lastTranscript = <<>>
  /\ micStatus = "Connected"
  /\ Len(messageHistory) = 1

\* C14: a submission whose trimmed input is empty or shorter than 50
\* characters shows an error message, makes no POST /api/add_data request
\* and leaves the submit button enabled.
C14_ShortInputRejected ==
  [][(SubmitForm /\ Trim(dataInput).core < MinLength) =>
       /\ responseDiv' = [type |-> "error",
                          text |-> IF Trim(dataInput).core = 0
                                     THEN EmptyMsg ELSE TooShortMsg]
       /\ posted' = posted
       /\ formPending' = formPending
       /\ ~submitDisabled']_vars

\* A text of 49 characters with white space around it, 51 in all, was
\* submitted and refused as too short.
C14_Witness ==
  /\ dataInput = [lead |-> 1, core |-> 49, trail |-> 1]
  /\ responseDiv = [type |-> "error", text |-> TooShortMsg]
  /\ posted = 0 /\ ~submitDisabled

\* C15: when the request of a valid submission settles, with a success
\* reply, an error reply or a failure, the submit button is enabled; and
\* the button is disabled only while a request is in flight.
C15_ButtonReenabled ==
  /\ [][(formPending # <<>> /\ formPending' = Tail(formPending)) =>
          ~submitDisabled']_vars
  /\ [](submitDisabled <=> formPending # <<>>)

\* A request failed and the button is enabled again.
C15_Witness ==
  /\ ~submitDisabled /\ posted > 0 /\ formPending = <<>>
  /\ responseDiv = [type |-> "error", text |-> NetworkErrorText]

\* C16: a valid submission makes one POST /api/add_data request with the
\* trimmed text; a success reply {nodes_added: n} shows the success message
\* with n and empties the input; an error reply or a failure leaves the
\* input as it is.
C16_OnePostThenClear ==
  [][/\ (SubmitForm /\ Trim(dataInput).core >= MinLength) =>
          /\ posted' = posted + 1
          /\ formPending' = <<Trim(dataInput)>>
     /\ posted' # posted => (SubmitForm /\ posted' = posted + 1)
     /\ \A n \in NodesAdded :
          (formPending # <<>> /\ formPending' = Tail(formPending)
             /\ AddDataOk(n)) =>
            /\ responseDiv' = [type |-> "success", text |-> SuccessMsg(n)]
            /\ dataInput' = EmptyInput
     /\ (AddDataReplyError \/ AddDataRequestFails) =>
          /\ dataInput' = dataInput
          /\ responseDiv'.type = "error"]_vars

\* One request was made, the reply said 3 chunks were added, the message
\* shows "3" and the input is empty.
C16_Witness ==
  /\ posted = 1 /\ formPending = <<>>
  /\ responseDiv = [type |-> "success", text |-> SuccessMsg(3)]
  /\ responseDiv.text[2] = "3"
  /\ dataInput = EmptyInput

\* C12: every error other than permission and recognition errors ends with
\* a message the user can see: a socket error with an assistant message in
\* the conversation pane, a failed or answerless chat reply with a new
\* bubble in the chat pane that is not a loading bubble, a failed or
\* refused ingestion with an error message in the form.
ShownBubbles(pane) == {i \in 1..Len(pane) : ~pane[i].loading}

C12_ErrorsSurfaced ==
  [][/\ SocketError =>
          /\ conversationPane' = Append(conversationPane,
               Msg("assistant", SocketErrorMsg, ""))
          /\ paneAttached'
     /\ (ChatRequestFails \/ ChatReplyWithoutAnswer) =>
          /\ Cardinality(ShownBubbles(chatPane')) >
               Cardinality(ShownBubbles(chatPane))
          /\ chatPane'[Len(chatPane')].role = "bot"
     /\ (AddDataReplyError \/ AddDataRequestFails) =>
          responseDiv'.type = "error"]_vars

C22_ReleasedNotListening ==
  [][(StopRecording /\ isRecording) =>
       recState' \notin {"starting", "listening"}]_vars

\* One call after another with the mute and hold controls and the grant
\* button of the permission modal.
ControlsInit == Init /\ hasCanvas /\ hasRecognition /\ hasSynthesis

ControlsNext ==
  \/ SocketConnect
  \/ StartCallClick
  \/ PermissionGrantedStart
  \/ GrantPermissionClick
  \/ PermissionGrantedGrant
  \/ ToggleMute
  \/ ToggleHold
  \/ EndCall

ControlsSpec == ControlsInit /\ [][ControlsNext]_vars

\* C23: in every state with an active call the tracks of mediaStream are
\* live and enabled exactly when isMuted is false, and no step of an active
\* call replaces mediaStream.
C23_MuteKeepsStream ==
  /\ [](isCallActive =>
          /\ mediaStream \in liveStreams
          /\ (mediaStream \in enabledStreams) <=> ~isMuted)
  /\ [][(isCallActive /\ isCallActive') => mediaStream' = mediaStream]_vars

\* Calls with the clock: time passes between the handlers and the interval
\* callback rewrites the call timer.
TimerInit == Init /\ hasCanvas /\ hasRecognition /\ hasSynthesis

TimerNext ==
  \/ TimePasses
  \/ SocketConnect
  \/ StartCallClick
  \/ PermissionGrantedStart
  \/ EndCall
  \/ TimerTick
  \/ SpeakTimerFires

TimerSpec == TimerInit /\ [][TimerNext]_vars

\* C24 as claimed: a timer tick of an active call writes the time elapsed
\* since callStartTime, whatever was shown before, as five characters: two
\* digits of minutes, a colon, two digits of seconds.
C24_TwoDigitMinutes ==
  [][(TimerTick /\ isCallActive) =>
       /\ callTimerText' = TimerText(now - callStartTime)
       /\ Len(callTimerText') = 5]_vars

\* C24 as amended: a timer tick of an active call writes the whole minutes
\* and the remaining whole seconds of now - callStartTime, whatever was
\* shown before: the seconds with two digits, the minutes with two digits
\* below ten minutes and with all their digits from there on (three digits
\* from the hundredth minute).
C24_ElapsedRecomputed ==
  [][(TimerTick /\ isCallActive) =>
       LET elapsed == now - callStartTime
           minutes == elapsed \div 60000
           seconds == (elapsed - minutes * 60000) \div 1000
       IN  /\ elapsed >= 0 /\ seconds \in 0..59
           /\ callTimerText' =
                (IF minutes < 10 THEN "0" ELSE "") \o ToString(minutes)
                \o ":" \o
                (IF seconds < 10 THEN "0" ELSE "") \o ToString(seconds)]_vars

\* A tick that came one hundred and one minutes and one second into the
\* call: the display shows that time with three digits of minutes.
C24_Witness ==
  /\ isCallActive /\ now - callStartTime = 6061000
  /\ callTimerText = "101:01"

\* C25: at most one call-timer interval is running, and none while no call
\* is active.
C25_OneTimerInCall ==
  /\ Cardinality(intervals) <= 1
  /\ ~isCallActive => intervals = {}

\* C26: while no call is active nothing is being spoken: an utterance
\* scheduled during a call does not start once the call has ended.
C26_SilentAfterEndCall == ~isCallActive => synthQueue = <<>>

\* C27: a final transcript delivered while no call is active emits no
\* voice_input and adds no entry to messageHistory.
C27_NoInputAfterEndCall ==
  [][(RecognitionOnResult /\ ~isCallActive) =>
       UNCHANGED <<emitted, messageHistory>>]_vars

\* C28: whenever a call is active the permission modal is hidden.
C28_ModalHiddenInCall == isCallActive => permissionModalHidden

\* C29: in every state the mute button reads 'Unmute' exactly when isMuted
\* is true and the hold button reads 'Resume' exactly when isOnHold is true.
C29_ButtonsShowFlags ==
  /\ (muteBtnText = "Unmute") <=> isMuted
  /\ (holdBtnText = "Resume") <=> isOnHold

====
